---- MODULE Spec2Model ----
(***************************************************************************)
(* A state-machine model of autodiff/symbolic.py: the tracer (Symbolic),   *)
(* the cache-aware compiled wrapper (Function) and the lazily compiled     *)
(* gradient wrapper (Gradient).                                            *)
(*                                                                         *)
(* One Function instance and one Gradient instance are modelled.  Each     *)
(* public method is one atomic action; the external collaborators          *)
(* (Context, orderedcallargs, theano) are modelled by their interface.     *)
(***************************************************************************)
EXTENDS Integers, Sequences, FiniteSets, TLC

\* ---------------------------------------------------------------- bounds
\* How many traces one Symbolic/Function instance runs in a behaviour.
MaxTraces == 2
\* The largest number of extra positional (variadic) values in one call.
MaxVarargs == 1
\* How many times one Gradient instance executes its function in a behaviour.
MaxGradTraces == 3

\* How many threads use one Function instance at the same time.
MaxThreads == 2

\* ------------------------------------------------------ program constants
\* The range of plain ints that check() boxes (and CPython interns).
SmallIntLo == -5
SmallIntHi == 256

\* Python's None, as a parameter name (argspec.varargs / argspec.keywords).
NoName == "<None>"

\* --------------------------------------------------------- runtime values
\* A runtime value: what kind of object it is, its numeric value (ints
\* only) and its identity, id(obj).  Identities are <<tag, n>> pairs.
Value(k, v, o) == [kind |-> k, val |-> v, oid |-> o]

\* Python's None (no default).
NoneValue == Value("none", 0, <<"none", 0>>)

\* A plain Python int held by the caller in slot `slot`: CPython hands out
\* one shared object per small int, so its identity is fixed by its value.
PlainInt(v, slot) ==
    Value("int", v, IF SmallIntLo <= v /\ v <= SmallIntHi
                    THEN <<"interned", v>> ELSE slot)

\* np.int_(v): a new boxed object, alive together with the others of the
\* same call, so its identity is its own.
NpInt(v, fresh) == Value("np_int", v, fresh)

\* id(obj)
Id(obj) == obj.oid

IsContainer(obj) == obj.kind \in {"list", "tuple", "dict"}

\* What a caller may hold in slot `slot` besides a plain int: an array the
\* engine can shadow, an object the engine cannot shadow, and the containers.
OtherValues(slot) ==
    {Value(k, 0, slot) : k \in {"array", "opaque", "list", "tuple", "dict"}}

\* ------------------------------------------------------------ Symbolic
\* check without the container branch: a container passes through.
check_no_container(name, i, fresh) ==
    IF i.kind = "int" /\ SmallIntLo <= i.val /\ i.val <= SmallIntHi
    THEN [raised |-> FALSE, val |-> NpInt(i.val, fresh)]
    ELSE [raised |-> FALSE, val |-> i]

\* check without the boxing branch: a small int passes through.
check_no_boxing(name, i, fresh) ==
    IF IsContainer(i)
    THEN [raised |-> TRUE, val |-> i]
    ELSE [raised |-> FALSE, val |-> i]

\* check(name, i) of trace: `fresh` is the identity of the object np.int_
\* would make.  raised = TRUE stands for the TypeError.
check(name, i, fresh) ==
    IF i.kind = "int" /\ SmallIntLo <= i.val /\ i.val <= SmallIntHi
    THEN [raised |-> FALSE, val |-> NpInt(i.val, fresh)]
    ELSE IF IsContainer(i)
         THEN [raised |-> TRUE, val |-> i]
         ELSE [raised |-> FALSE, val |-> i]

\* ------------------------------------------------------------- sequences
Range(s) == {s[i] : i \in DOMAIN s}

RECURSIVE Concat(_)
\* The concatenation of a sequence of sequences.
Concat(ss) == IF ss = <<>> THEN <<>> ELSE Head(ss) \o Concat(Tail(ss))

\* An OrderedDict kept as a sequence of entries with a `name` key:
\* d[name] = entry replaces in place, or appends a new key.
Put(d, entry) ==
    IF \E i \in DOMAIN d : d[i].name = entry.name
    THEN [i \in DOMAIN d |-> IF d[i].name = entry.name THEN entry ELSE d[i]]
    ELSE Append(d, entry)

Has(d, name) == \E i \in DOMAIN d : d[i].name = name

Get(d, name) == d[CHOOSE i \in DOMAIN d : d[i].name = name]

\* ------------------------------------------------- the wrapped function
\* getargspec(pyfn) plus what the body returns: `ret` is "single" (one
\* non-tuple value), "tuple1" ((r,)), "pair" ((r1, r2)), "pairsame"
\* ((r, r)), "untraced" (a value no graph operation made) or "raises".
PyFn(a, va, kw, d, r) ==
    [args |-> a, varargs |-> va, keywords |-> kw, defaults |-> d, ret |-> r]

\* Symbolic.__init__: small plain int defaults are replaced by np.int_.
BoxDefaults(defaults) ==
    [i \in DOMAIN defaults |->
        IF defaults[i].kind = "int"
           /\ SmallIntLo <= defaults[i].val /\ defaults[i].val <= SmallIntHi
        THEN NpInt(defaults[i].val, <<"default", i>>)
        ELSE defaults[i]]

\* The functions a Function instance is built around.
PyFns ==
    { PyFn(<<"x", "y">>, NoName, NoName, <<>>, r) :
          r \in {"single", "tuple1", "pair", "pairsame", "untraced", "raises"} }
    \cup { PyFn(<<"x", "y">>, NoName, NoName,
                <<PlainInt(1, <<"default", 1>>)>>, "single"),
           PyFn(<<"x">>, "va", NoName, <<>>, "single"),
           PyFn(<<>>, "va", "kw", <<>>, "single") }

\* Functions whose last one or two parameters have defaults, with and
\* without a variadic parameter or a keyword bag: f(x, y=2), f(x=1, y=300),
\* f(x, y=2, *va), f(x=1, y=300, *va), f(x=1, **kw).
DefaultPyFns ==
    LET d1 == PlainInt(1, <<"default", 1>>)
        d2 == PlainInt(2, <<"default", 1>>)
        big == PlainInt(300, <<"default", 2>>)
    IN  { PyFn(<<"x", "y">>, NoName, NoName, <<d2>>, "single"),
          PyFn(<<"x", "y">>, NoName, NoName, <<d1, big>>, "single"),
          PyFn(<<"x", "y">>, "va", NoName, <<d2>>, "single"),
          PyFn(<<"x", "y">>, "va", NoName, <<d1, big>>, "single"),
          PyFn(<<"x">>, NoName, "kw", <<d1>>, "single") }

\* The sets of keyword names a caller may pass in one call: none, a declared
\* parameter by name, or one name for the keyword bag.
KeySets == {{}, {"y"}, {"a"}, {"b"}}

\* The order in which a call's keyword dict iterates.
KeyOrder == <<"x", "y", "a", "b">>

\* ------------------------------------------------------ signature binder
KwKeys(kwargs) == {kwargs[j].name : j \in DOMAIN kwargs}

\* Whether fn(*args, **kwargs) binds without a TypeError.
BindOk(fn, args, kwargs) ==
    LET np == Len(fn.args)
        nd == Len(fn.defaults)
        byPos == {fn.args[i] : i \in 1..(IF Len(args) < np THEN Len(args) ELSE np)}
    IN  /\ (Len(args) > np => fn.varargs # NoName)
        /\ KwKeys(kwargs) \cap byPos = {}
        /\ (KwKeys(kwargs) \ Range(fn.args) # {} => fn.keywords # NoName)
        /\ \A i \in 1..np :
               i <= Len(args) \/ fn.args[i] \in KwKeys(kwargs) \/ i > np - nd

\* orderedcallargs(fn, *args, **kwargs): the declared parameters in order,
\* then the variadic tuple, then the keyword bag, each under its name.  An
\* entry's items are the values bound under that name, each with its key.
orderedcallargs(fn, args, kwargs) ==
    LET np == Len(fn.args)
        nd == Len(fn.defaults)
        bound(i) == IF i <= Len(args) THEN args[i]
                    ELSE IF fn.args[i] \in KwKeys(kwargs)
                         THEN Get(kwargs, fn.args[i]).val
                         ELSE fn.defaults[i - (np - nd)]
        pos == [i \in 1..np |->
                  [name |-> fn.args[i],
                   items |-> <<[name |-> fn.args[i], val |-> bound(i)]>>]]
        nv == IF Len(args) > np THEN Len(args) - np ELSE 0
        var == IF fn.varargs = NoName THEN <<>>
               ELSE <<[name |-> fn.varargs,
                       items |-> [i \in 1..nv |->
                                    [name |-> fn.varargs, val |-> args[np + i]]]]>>
        kw == IF fn.keywords = NoName THEN <<>>
              ELSE <<[name |-> fn.keywords,
                      items |-> SelectSeq(kwargs,
                                   LAMBDA e : e.name \notin Range(fn.args))]>>
    IN  pos \o var \o kw

\* callargs.get(name, ()) for the variadic tuple.
VarItems(fn, callargs) ==
    IF Has(callargs, fn.varargs) THEN Get(callargs, fn.varargs).items ELSE <<>>

\* ------------------------------------------- instrumented engine (Context)
\* A graph node: made by the `tr`-th execution for the runtime value whose
\* identity is `of`.
Node(tr, id) == [tr |-> tr, of |-> id]

\* The value(s) the body returns, as [istuple, items].
Returned(fn) ==
    LET r(i) == Value("array", 0, <<"result", i>>)
    IN  CASE fn.ret = "single"   -> [istuple |-> FALSE, items |-> <<r(1)>>]
          [] fn.ret = "tuple1"   -> [istuple |-> TRUE, items |-> <<r(1)>>]
          [] fn.ret = "pair"     -> [istuple |-> TRUE, items |-> <<r(1), r(2)>>]
          [] fn.ret = "pairsame" -> [istuple |-> TRUE, items |-> <<r(1), r(1)>>]
          [] OTHER -> [istuple |-> FALSE,
                       items |-> <<Value("opaque", 0, <<"result", 1>>)>>]

\* Context.call(fn, args, kwargs) as the tr-th execution: whether the body
\* raised, what it returned, and svars, one node per identity of a value the
\* engine shadowed (every bound argument and result but the opaque ones).
ContextCall(fn, args, kwargs, tr) ==
    LET callargs == orderedcallargs(fn, args, kwargs)
        bound == UNION {{it.val : it \in Range(e.items)} : e \in Range(callargs)}
        results == Returned(fn)
        seen == {v \in bound \cup Range(results.items) : v.kind # "opaque"}
        ids == {Id(v) : v \in seen}
    IN  [raised |-> fn.ret = "raises",
         results |-> results,
         svars |-> [id \in ids |-> Node(tr, id)]]

\* ---------------------------------------------------------- Symbolic.trace
NoError == [kind |-> "none", name |-> "", index |-> 0]

\* The argument pre-processing of trace (lines 81-85): every positional
\* value and every keyword value goes through check.
Preprocess(fn, args, kwargs) ==
    LET np == Len(fn.args)
        ca == [i \in DOMAIN args |->
                 check(IF i <= np THEN fn.args[i] ELSE fn.varargs,
                       args[i], <<"boxed", i>>)]
        ck == [j \in DOMAIN kwargs |->
                 check(kwargs[j].name, kwargs[j].val, <<"boxedkw", j>>)]
    IN  [raised |-> (\E i \in DOMAIN ca : ca[i].raised)
                       \/ (\E j \in DOMAIN ck : ck[j].raised),
         args |-> [i \in DOMAIN args |-> ca[i].val],
         kwargs |-> [j \in DOMAIN kwargs |->
                       [name |-> kwargs[j].name, val |-> ck[j].val]]]

\* The assignments the loop over callargs makes (lines 102-138), in order.
ArgSteps(fn, callargs) ==
    Concat([k \in DOMAIN callargs |->
        LET e == callargs[k] IN
        IF e.name = fn.varargs
        THEN <<[op |-> "varinit", name |-> e.name, index |-> 0, val |-> NoneValue]>>
             \o [i \in DOMAIN e.items |->
                   [op |-> "varitem", name |-> e.name, index |-> i - 1,
                    val |-> e.items[i].val]]
        ELSE IF e.name = fn.keywords
        THEN [i \in DOMAIN e.items |->
                [op |-> "kw", name |-> e.items[i].name, index |-> 0,
                 val |-> e.items[i].val]]
        ELSE <<[op |-> "pos", name |-> e.name, index |-> 0,
                val |-> e.items[1].val]>>])

RECURSIVE CollectArgs(_, _, _, _)
\* Runs steps k.. on s_args = sa; stops at the first value whose identity
\* is not in sv (the KeyError), keeping what was already assigned.
CollectArgs(steps, k, sv, sa) ==
    IF k > Len(steps) THEN [s_args |-> sa, err |-> NoError]
    ELSE LET st == steps[k] IN
         IF st.op = "varinit"
         THEN CollectArgs(steps, k + 1, sv,
                          Put(sa, [name |-> st.name, var |-> TRUE, nodes |-> <<>>]))
         ELSE IF Id(st.val) \notin DOMAIN sv
         THEN [s_args |-> sa,
               err |-> [kind |-> IF st.op = "varitem" THEN "varitem" ELSE "arg",
                        name |-> st.name, index |-> st.index]]
         ELSE IF st.op = "varitem"
         THEN CollectArgs(steps, k + 1, sv,
                  Put(sa, [name |-> st.name, var |-> TRUE,
                           nodes |-> Append(Get(sa, st.name).nodes, sv[Id(st.val)])]))
         ELSE CollectArgs(steps, k + 1, sv,
                  Put(sa, [name |-> st.name, var |-> FALSE,
                           nodes |-> <<sv[Id(st.val)]>>]))

RECURSIVE CollectResults(_, _, _, _)
\* Lines 143-150: s_results[id(r)] = s_vars[id(r)] for each result, stopping
\* at the first that is not in sv; the error carries i + 1.
CollectResults(items, k, sv, sr) ==
    IF k > Len(items) THEN [s_results |-> sr, err |-> NoError]
    ELSE IF Id(items[k]) \notin DOMAIN sv
    THEN [s_results |-> sr,
          err |-> [kind |-> "result", name |-> "", index |-> (k - 1) + 1]]
    ELSE CollectResults(items, k + 1, sv,
             Put(sr, [name |-> Id(items[k]), node |-> sv[Id(items[k])]]))

\* An s_args or s_results that is not cleared.
Clear_keeps(d) == d

\* An s_vars that is not cleared: the update merges into the old entries.
ClearVars_keeps(sv) == sv

\* OrderedDict.clear() for the identity-keyed s_vars and for s_args/s_results.
ClearVars(sv) == [id \in {} |-> Node(0, id)]

Clear(d) == <<>>

\* s_vars.update(svars)
UpdateVars(sv, svars) ==
    [id \in DOMAIN sv \cup DOMAIN svars |->
        IF id \in DOMAIN svars THEN svars[id] ELSE sv[id]]

\* How trace ends once both bindings were attempted (lines 102-150): the
\* first untraceable argument, else the first untraceable result, is the
\* KeyError; s_results is only filled when every argument was found.
Bound(vars1, ra, rr, sr0) ==
    IF ra.err # NoError
    THEN [outcome |-> "KeyError", executed |-> TRUE, err |-> ra.err,
          s_vars |-> vars1, s_args |-> ra.s_args, s_results |-> sr0]
    ELSE [outcome |-> IF rr.err # NoError THEN "KeyError" ELSE "ok",
          executed |-> TRUE, err |-> rr.err,
          s_vars |-> vars1, s_args |-> ra.s_args, s_results |-> rr.s_results]

\* Lines 99-150 on the updated s_vars and the cleared s_args, s_results.
Collected(vars1, steps, results, sa0, sr0) ==
    Bound(vars1, CollectArgs(steps, 1, vars1, sa0),
          CollectResults(results, 1, vars1, sr0), sr0)

\* Lines 87-150, after the engine has run the body (c): the dictionaries
\* are cleared, a raising body propagates, else the bindings are collected.
Executed(fn, sv, sa, sr, c, callargs) ==
    IF c.raised
    THEN [outcome |-> "FnError", executed |-> TRUE, err |-> NoError,
          s_vars |-> ClearVars(sv), s_args |-> Clear(sa),
          s_results |-> Clear(sr)]
    ELSE Collected(UpdateVars(ClearVars(sv), c.svars), ArgSteps(fn, callargs),
                   c.results.items, Clear(sa), Clear(sr))

\* Lines 81-150, after the arguments were pre-processed (pre): a container
\* has raised the TypeError before anything was cleared or executed.
Traced(fn, sv, sa, sr, pre, tr) ==
    IF pre.raised
    THEN [outcome |-> "TypeError", executed |-> FALSE, err |-> NoError,
          s_vars |-> sv, s_args |-> sa, s_results |-> sr]
    ELSE Executed(fn, sv, sa, sr, ContextCall(fn, pre.args, pre.kwargs, tr),
                  orderedcallargs(fn, pre.args, pre.kwargs))

\* trace(*args, **kwargs) on the dictionaries (sv, sa, sr), as the tr-th
\* execution: the dictionaries afterwards, how it ended ("TypeError" for a
\* container, "FnError" when the body raised, "KeyError" for an untraceable
\* argument or result, else "ok") and whether the body was executed.
trace(fn, sv, sa, sr, args, kwargs, tr) ==
    Traced(fn, sv, sa, sr, Preprocess(fn, args, kwargs), tr)

\* -------------------------------------------------------------- Function
\* The defaults zipped with all of the last len(defaults) names, whether or
\* not there is a variadic parameter.
DefaultOf_unsliced(fn, name) ==
    LET np == Len(fn.args)
        nd == Len(fn.defaults)
    IN  IF \E i \in (np - nd + 1)..np : fn.args[i] = name
        THEN fn.defaults[(CHOOSE i \in (np - nd + 1)..np : fn.args[i] = name)
                         - (np - nd)]
        ELSE NoneValue

\* defaults.get(name) of _compile_function (lines 174-179): the names are
\* argspec.args[-len(defaults) : -1 if varargs else None], zipped with the
\* defaults.
DefaultOf(fn, name) ==
    LET np == Len(fn.args)
        nd == Len(fn.defaults)
        names == IF nd = 0 THEN <<>>
                 ELSE SubSeq(fn.args, np - nd + 1,
                             IF fn.varargs # NoName THEN np - 1 ELSE np)
    IN  IF \E k \in DOMAIN names : names[k] = name
        THEN fn.defaults[CHOOSE k \in DOMAIN names : names[k] = name]
        ELSE NoneValue

\* The inputs theano.function is given (lines 180-185): one Param per
\* s_args entry that is not the variadic one, then one input per variadic
\* element.
Inputs(fn, sa) ==
    LET plain == SelectSeq(sa, LAMBDA e : e.name # fn.varargs)
        var == IF Has(sa, fn.varargs) THEN Get(sa, fn.varargs).nodes ELSE <<>>
    IN  [i \in DOMAIN plain |->
            [name |-> plain[i].name, index |-> -1,
             default |-> DefaultOf(fn, plain[i].name)]]
        \o [i \in DOMAIN var |->
            [name |-> fn.varargs, index |-> i - 1,
             default |-> NoneValue]]

\* The outputs theano.function is given (lines 188-190): the values of
\* s_results, unwrapped when there is exactly one.
Outputs(sr) ==
    [single |-> Len(sr) = 1, nodes |-> [i \in DOMAIN sr |-> sr[i].node]]

\* The compiled artifact: `id` tells one theano.function result from another.
Artifact(id, fn, sa, sr) ==
    [id |-> id, inputs |-> Inputs(fn, sa), outputs |-> Outputs(sr)]

NoArtifact == [id |-> 0, inputs |-> <<>>, outputs |-> Outputs(<<>>)]

\* A key that counts every positional value of the call.
CacheKey_counting_all(fn, args, kwargs) == Len(args)

\* The cache key of a call (lines 199, 211).
CacheKey(fn, args, kwargs) == Len(VarItems(fn, orderedcallargs(fn, args, kwargs)))

\* A store that drops every other key.
Store_evicting(cache, key, art) == [k \in {key} |-> art]

\* cache[key] = art
Store(cache, key, art) ==
    [k \in DOMAIN cache \cup {key} |-> IF k = key THEN art ELSE cache[k]]

\* What the symbolic engine does with what it is given: it compiles and the
\* artifact runs, or theano.function raises, or the artifact raises when
\* it is invoked.
Engine == {"ok", "CompileError", "InvokeError"}

\* A compile that stores its artifact before theano.function can raise.
Compiled_storing_first(fn, cache, t, key, artId, ext) ==
    IF t.outcome # "ok"
    THEN t @@ [cache |-> cache, fn |-> NoArtifact]
    ELSE IF ext = "CompileError"
    THEN [t EXCEPT !.outcome = "CompileError"]
             @@ [cache |-> Store(cache, key,
                                 Artifact(artId, fn, t.s_args, t.s_results)),
                 fn |-> NoArtifact]
    ELSE t @@ [cache |-> Store(cache, key,
                               Artifact(artId, fn, t.s_args, t.s_results)),
               fn |-> Artifact(artId, fn, t.s_args, t.s_results)]

\* Lines 162-201 of _compile_function, after its trace (t): a failed trace
\* propagates, theano.function may raise, else the artifact is stored under
\* the key and returned.
Compiled(fn, cache, t, key, artId, ext) ==
    IF t.outcome # "ok"
    THEN t @@ [cache |-> cache, fn |-> NoArtifact]
    ELSE IF ext = "CompileError"
    THEN [t EXCEPT !.outcome = "CompileError"]
             @@ [cache |-> cache, fn |-> NoArtifact]
    ELSE t @@ [cache |-> Store(cache, key,
                               Artifact(artId, fn, t.s_args, t.s_results)),
               fn |-> Artifact(artId, fn, t.s_args, t.s_results)]

\* _compile_function(args, kwargs): traces, compiles and stores the artifact
\* under the key.
compile_function(fn, sv, sa, sr, cache, args, kwargs, tr, artId, ext) ==
    Compiled(fn, cache, trace(fn, sv, sa, sr, args, kwargs, tr),
             CacheKey(fn, args, kwargs), artId, ext)

\* dict.get(key, default)
DictGet(d, key, default) == IF key \in DOMAIN d THEN d[key] ELSE default

\* Lines 211-218 of call, with c what _compile_function did: the lookup is
\* made in the cache as _compile_function left it, and the artifact found
\* is invoked.
Invoked(c, key, ext) ==
    IF c.outcome # "ok"
    THEN c @@ [invoked |-> NoArtifact]
    ELSE [c EXCEPT !.outcome = ext]
             @@ [invoked |-> DictGet(c.cache, key, c.fn)]

\* A call that compiles only when the cache has no artifact under the key.
call_lazy(fn, sv, sa, sr, cache, args, kwargs, tr, artId, ext) ==
    IF CacheKey(fn, args, kwargs) \in DOMAIN cache
    THEN [outcome |-> IF ext = "InvokeError" THEN ext ELSE "ok",
          executed |-> FALSE, err |-> NoError,
          s_vars |-> sv, s_args |-> sa, s_results |-> sr,
          cache |-> cache, fn |-> NoArtifact,
          invoked |-> cache[CacheKey(fn, args, kwargs)]]
    ELSE Invoked(compile_function(fn, sv, sa, sr, cache, args, kwargs, tr,
                                  artId, ext),
                 CacheKey(fn, args, kwargs), ext)

\* call(*args, **kwargs): Python evaluates the arguments of cache.get before
\* the lookup, so _compile_function runs first, whatever the cache holds.
call(fn, sv, sa, sr, cache, args, kwargs, tr, artId, ext) ==
    Invoked(compile_function(fn, sv, sa, sr, cache, args, kwargs, tr, artId,
                             ext),
            CacheKey(fn, args, kwargs), ext)

\* -------------------------------------------------------------- Gradient
\* self._grad_fn = None
NoGradFn == [id |-> 0, wrt |-> <<>>, single |-> FALSE, grads |-> <<>>]

\* The object the body returns, as Gradient sees it (line 239): a returned
\* tuple is one object that no graph operation made.
GradResult(fn) ==
    LET r == Returned(fn)
    IN  IF r.istuple THEN Value("tuple", 0, <<"result", 0>>) ELSE r.items[1]

\* [ctxt.svars[id(a)] for a in values] (lines 242-243): the nodes, and
\* whether an identity was missing (the KeyError).
Lookup(svars, values) ==
    [missing |-> \E i \in DOMAIN values : Id(values[i]) \notin DOMAIN svars,
     nodes |-> [i \in DOMAIN values |->
                  IF Id(values[i]) \in DOMAIN svars THEN svars[Id(values[i])]
                  ELSE Node(0, Id(values[i]))]]

\* tt.grad(cost, wrt): one gradient node per element of wrt, in order.
TTGrad(cost, wrt) == [i \in DOMAIN wrt |-> [cost |-> cost, wrt |-> wrt[i]]]

\* kwargs.values()
KwValues(kwargs) == [j \in DOMAIN kwargs |-> kwargs[j].val]

\* The keyword nodes put before the positional ones.
WrtList_keywords_first(s_a, s_kw) == s_kw \o s_a

\* The list the gradient is taken with respect to (line 250).
WrtList(s_a, s_kw) == s_a \o s_kw

\* A failure handler that keeps the artifact.
OnInvokeError_keeps(g) == g

\* What the failure handler leaves in self._grad_fn (lines 260-262).
OnInvokeError(g) == NoGradFn

\* Lines 257-263: the artifact art is invoked; when it raises, the handler
\* resets _grad_fn and the error propagates.
GradInvoke(art, executed, built, ext) ==
    IF ext = "InvokeError"
    THEN [grad_fn |-> OnInvokeError(art), outcome |-> "InvokeError",
          executed |-> executed, built |-> built, invoked |-> art]
    ELSE [grad_fn |-> art, outcome |-> "ok",
          executed |-> executed, built |-> built, invoked |-> art]

\* A call that raises before any artifact is invoked leaves _grad_fn as is.
GradRaise(g, what) ==
    [grad_fn |-> g, outcome |-> what, executed |-> TRUE,
     built |-> NoGradFn, invoked |-> NoGradFn]

\* Lines 250-255: the artifact theano.function returns for the gradient of
\* cost with respect to wrt, unwrapped when there is one gradient.
GradArtifact(artId, cost, wrt) ==
    [id |-> artId, wrt |-> wrt, single |-> Len(TTGrad(cost, wrt)) = 1,
     grads |-> TTGrad(cost, wrt)]

\* The build with the keyword lookup's KeyError swallowed.
GradBuilt_ignoring_keywords(g, s_a, s_kw, s_res, artId, ext) ==
    IF s_a.missing \/ s_res.missing
    THEN GradRaise(g, "KeyError")
    ELSE IF ext = "CompileError" THEN GradRaise(g, "CompileError")
    ELSE GradInvoke(GradArtifact(artId, s_res.nodes[1],
                                 WrtList(s_a.nodes, s_kw.nodes)),
                    TRUE,
                    GradArtifact(artId, s_res.nodes[1],
                                 WrtList(s_a.nodes, s_kw.nodes)),
                    ext)

\* Lines 241-263, given the three lookups: a missing identity is the
\* KeyError, tt.grad or theano.function may raise, else the artifact is
\* cached and invoked.
GradBuilt(g, s_a, s_kw, s_res, artId, ext) ==
    IF s_a.missing \/ s_kw.missing \/ s_res.missing
    THEN GradRaise(g, "KeyError")
    ELSE IF ext = "CompileError" THEN GradRaise(g, "CompileError")
    ELSE GradInvoke(GradArtifact(artId, s_res.nodes[1],
                                 WrtList(s_a.nodes, s_kw.nodes)),
                    TRUE,
                    GradArtifact(artId, s_res.nodes[1],
                                 WrtList(s_a.nodes, s_kw.nodes)),
                    ext)

\* Lines 238-263, after the engine has run the function (c).
GradTraced(g, c, args, kwargs, result, artId, ext) ==
    IF c.raised THEN GradRaise(g, "FnError")
    ELSE GradBuilt(g, Lookup(c.svars, args), Lookup(c.svars, KwValues(kwargs)),
                   Lookup(c.svars, <<result>>), artId, ext)

\* A __call__ that traces and builds whether or not an artifact is cached.
grad_call_always_builds(fn, g, args, kwargs, tr, artId, ext) ==
    GradTraced(g, ContextCall(fn, args, kwargs, tr), args, kwargs,
               GradResult(fn), artId, ext)

\* Gradient.__call__(*args, **kwargs) with self._grad_fn = g, as the tr-th
\* execution of the wrapped function if one is needed: the new _grad_fn, how
\* the call ended, whether the function was executed, the artifact built
\* (NoGradFn if none) and the artifact invoked (NoGradFn if none).
grad_call(fn, g, args, kwargs, tr, artId, ext) ==
    IF g # NoGradFn THEN GradInvoke(g, FALSE, NoGradFn, ext)
    ELSE GradTraced(g, ContextCall(fn, args, kwargs, tr), args, kwargs,
                    GradResult(fn), artId, ext)

\* ------------------------------------------------------------ call inputs
\* f(1, 1, ..., k=1, ...): n positional values and the keywords `keys`,
\* every one of them the plain int 1.
AllOnes(n, keys) ==
    [args |-> [i \in 1..n |-> PlainInt(1, <<"arg", i>>)],
     kwargs |-> LET ks == SelectSeq(KeyOrder, LAMBDA k : k \in keys)
                IN  [j \in DOMAIN ks |->
                       [name |-> ks[j], val |-> PlainInt(1, <<"kwarg", j>>)]]]

\* The calls that differ from `in` in one argument, which holds something
\* else than an int.
OneOther(in) ==
    UNION {{[in EXCEPT !.args[i] = v] : v \in OtherValues(<<"arg", i>>)} :
               i \in DOMAIN in.args}
    \cup UNION {{[in EXCEPT !.kwargs[j].val = v] :
                    v \in OtherValues(<<"kwarg", j>>)} : j \in DOMAIN in.kwargs}

\* The calls fn(*args, **kwargs) a caller makes: those that bind, with up to
\* MaxVarargs extra positional values and one of KeySets as keywords.
CallInputs(fn) ==
    LET maxPos == Len(fn.args) + (IF fn.varargs = NoName THEN 0 ELSE MaxVarargs)
        shapes == {AllOnes(n, K) : n \in 0..maxPos, K \in KeySets}
    IN  UNION {{in} \cup OneOther(in) :
                   in \in {sh \in shapes : BindOk(fn, sh.args, sh.kwargs)}}

\* ------------------------------------------------------------------ state
VARIABLES
    pyfn,        \* Symbolic._pyfn, as getargspec sees it
    s_vars,      \* Symbolic.s_vars: identity -> node
    s_args,      \* Symbolic.s_args: name -> node (or nodes, for the variadic)
    s_results,   \* Symbolic.s_results: identity -> node
    cache,       \* Symbolic._cache: variadic count -> artifact
    traceCount,  \* how many times Context.call has executed pyfn
    artCount,    \* how many artifacts theano.function has returned
    last,        \* what the last operation did (observation only)
    grad_fn,     \* Gradient._grad_fn
    gradTraces,  \* how many times the Gradient has executed its function
    gradBuilds,  \* how many gradient artifacts theano.function has returned
    glast,       \* what the last Gradient call did (observation only)
    useLock,     \* whether callers hold a per-instance lock around call
    lock,        \* the thread that holds the lock (0 for none)
    th           \* per thread: where it is in call, and its local variables

vars == <<pyfn, s_vars, s_args, s_results, cache, traceCount, artCount, last,
          grad_fn, gradTraces, gradBuilds, glast, useLock, lock, th>>

concVars == <<useLock, lock, th>>

symVars == <<s_vars, s_args, s_results, cache, traceCount, artCount, last>>

gradVars == <<grad_fn, gradTraces, gradBuilds, glast>>

NoCache == [k \in {} |-> NoArtifact]

\* The values of a call, positional first.
Supplied(in) == in.args \o KwValues(in.kwargs)

\* The positional values call passes to the artifact (lines 214-215), each
\* as the logical argument it is: the named parameters in order, then the
\* variadic elements in order.
PosArgs(fn, callargs) ==
    [i \in DOMAIN fn.args |-> [name |-> fn.args[i], index |-> -1]]
    \o [i \in DOMAIN VarItems(fn, callargs) |->
           [name |-> fn.varargs, index |-> i - 1]]

\* The names of the keyword values call passes to the artifact (line 216).
KwArgs(fn, callargs) ==
    IF Has(callargs, fn.keywords)
    THEN {Get(callargs, fn.keywords).items[j].name :
              j \in DOMAIN Get(callargs, fn.keywords).items}
    ELSE {}

\* The identities the engine reports when it executes the function on the
\* pre-processed arguments `pre`.
ReportedFor(pre) ==
    DOMAIN ContextCall(pyfn, pre.args, pre.kwargs, traceCount + 1).svars

\* The identities the engine reports for the execution the operation r ran
\* on the call `in` (none if the body was not run to its end).
Reported(r, in) ==
    IF r.executed /\ r.outcome # "FnError"
    THEN ReportedFor(Preprocess(pyfn, in.args, in.kwargs))
    ELSE {}

\* The observation of an operation, given the values vs and the callargs of
\* its call.
ObservedCall(op, r, in, vs, callargs, key, hit, built, invoked) ==
    [op |-> op, outcome |-> r.outcome, executed |-> r.executed, err |-> r.err,
     nargs |-> IF r.outcome # "TypeError" THEN Len(in.args) ELSE 0,
     keys |-> IF r.outcome # "TypeError" THEN KwKeys(in.kwargs) ELSE {},
     reported |-> Reported(r, in),
     pos |-> IF r.outcome # "TypeError" THEN PosArgs(pyfn, callargs) ELSE <<>>,
     kw |-> IF r.outcome # "TypeError" THEN KwArgs(pyfn, callargs) ELSE {},
     container |-> \E i \in DOMAIN vs : IsContainer(vs[i]),
     ints |-> Cardinality({i \in DOMAIN vs :
                              /\ vs[i].kind = "int"
                              /\ SmallIntLo <= vs[i].val
                              /\ vs[i].val <= SmallIntHi}),
     key |-> key, hit |-> hit, built |-> built, invoked |-> invoked]

\* What an operation was given and what it did: unless the pre-processing
\* rejected it, the call had `nargs` positional values and the keyword names
\* `keys`; it
\* had a container among its values, `ints` of them were plain ints in the
\* small range; the cache key
\* of the call and whether the cache held it before; the ids of the artifact
\* compiled and of the artifact invoked (0 for none); the identities the
\* engine reported; the positional values and the keyword names the artifact
\* is invoked with.
Observed(op, r, in, key, hit, built, invoked) ==
    ObservedCall(op, r, in, Supplied(in),
                 orderedcallargs(pyfn, in.args, in.kwargs),
                 key, hit, built, invoked)

\* ---------------------------------------------------------------- threads
Threads == 1..MaxThreads

\* A thread outside call: `in` is the call it makes, `tr` the number of its
\* own execution of the function, `art` the artifact it compiled.
Idle == [pc |-> "idle", in |-> [args |-> <<>>, kwargs |-> <<>>], tr |-> 0,
         art |-> NoArtifact]

\* The fields of a newly constructed instance (lines 17-20 and 224).
Constructed ==
    /\ s_vars = ClearVars(<<>>)
    /\ s_args = <<>>
    /\ s_results = <<>>
    /\ cache = NoCache
    /\ traceCount = 0
    /\ artCount = 0
    /\ last = [op |-> "init", outcome |-> "ok", executed |-> FALSE,
               err |-> NoError, nargs |-> 0, keys |-> {}, reported |-> {},
               pos |-> <<>>, kw |-> {},
               container |-> FALSE, ints |-> 0, key |-> 0,
               hit |-> FALSE, built |-> 0, invoked |-> 0]
    /\ grad_fn = NoGradFn
    /\ gradTraces = 0
    /\ gradBuilds = 0
    /\ glast = [outcome |-> "init", executed |-> FALSE, ready |-> FALSE,
                missing |-> FALSE, built |-> 0, invoked |-> 0,
                args |-> <<>>, kwargs |-> <<>>]
    /\ lock = 0
    /\ th = [t \in Threads |-> Idle]

\* Symbolic.__init__(pyfn), and Gradient.__init__ around the same function.
Init ==
    /\ pyfn \in {[f EXCEPT !.defaults = BoxDefaults(f.defaults)] : f \in PyFns}
    /\ Constructed
    /\ useLock = FALSE

\* Symbolic.__init__(pyfn) for a function with default values.
DefaultsInit ==
    /\ pyfn \in {[f EXCEPT !.defaults = BoxDefaults(f.defaults)] :
                    f \in DefaultPyFns}
    /\ Constructed
    /\ useLock = FALSE

\* Whether the tr-th execution of fn on the call `in` returns without a
\* node for one of the supplied values or for the returned object.
Untraced(fn, in, tr) ==
    /\ fn.ret # "raises"
    /\ \E v \in Range(Supplied(in)) \cup {GradResult(fn)} :
           Id(v) \notin DOMAIN ContextCall(fn, in.args, in.kwargs, tr).svars

\* instance.trace(*args, **kwargs)
TraceCall ==
    /\ traceCount < MaxTraces
    /\ \E in \in CallInputs(pyfn) :
         \E r \in {trace(pyfn, s_vars, s_args, s_results, in.args, in.kwargs,
                         traceCount + 1)} :
             /\ s_vars' = r.s_vars
             /\ s_args' = r.s_args
             /\ s_results' = r.s_results
             /\ traceCount' = IF r.executed THEN traceCount + 1 ELSE traceCount
             /\ last' = Observed("trace", r, in, 0, FALSE, 0, 0)
    /\ UNCHANGED <<pyfn, cache, artCount, gradVars, concVars>>

\* instance(*args, **kwargs), i.e. instance.call(*args, **kwargs)
FunctionCall ==
    /\ traceCount < MaxTraces
    /\ \E in \in CallInputs(pyfn), ext \in Engine :
         \E r \in {call(pyfn, s_vars, s_args, s_results, cache, in.args,
                        in.kwargs, traceCount + 1, artCount + 1, ext)},
            key \in {CacheKey(pyfn, in.args, in.kwargs)} :
             /\ s_vars' = r.s_vars
             /\ s_args' = r.s_args
             /\ s_results' = r.s_results
             /\ cache' = r.cache
             /\ traceCount' = IF r.executed THEN traceCount + 1 ELSE traceCount
             /\ artCount' = IF r.fn # NoArtifact THEN artCount + 1 ELSE artCount
             /\ last' = Observed("call", r, in, key, key \in DOMAIN cache,
                                 r.fn.id, r.invoked.id)
    /\ UNCHANGED <<pyfn, gradVars, concVars>>

\* gradient(*args, **kwargs), i.e. Gradient.__call__
GradientCall ==
    /\ grad_fn # NoGradFn \/ gradTraces < MaxGradTraces
    /\ \E in \in CallInputs(pyfn), ext \in Engine :
         \E r \in {grad_call(pyfn, grad_fn, in.args, in.kwargs, gradTraces + 1,
                             gradBuilds + 1, ext)} :
             /\ grad_fn' = r.grad_fn
             /\ gradTraces' = IF r.executed THEN gradTraces + 1 ELSE gradTraces
             /\ gradBuilds' = IF r.built # NoGradFn THEN gradBuilds + 1
                               ELSE gradBuilds
             /\ glast' = [outcome |-> r.outcome, executed |-> r.executed,
                          ready |-> grad_fn # NoGradFn,
                          missing |-> Untraced(pyfn, in, gradTraces + 1),
                          built |-> r.built.id,
                          invoked |-> r.invoked.id,
                          args |-> [i \in DOMAIN in.args |-> Id(in.args[i])],
                          kwargs |-> [j \in DOMAIN in.kwargs |->
                                        Id(in.kwargs[j].val)]]
    /\ UNCHANGED <<pyfn, symVars, concVars>>

\* ------------------------------------------- call, one thread among others
\* The functions of the instance the threads share: f(x, y) returning a
\* pair, f(x, *va) and f(*va, **kw).
ConcPyFns ==
    { PyFn(<<"x", "y">>, NoName, NoName, <<>>, "pair"),
      PyFn(<<"x">>, "va", NoName, <<>>, "single"),
      PyFn(<<>>, "va", "kw", <<>>, "single") }

\* The calls a thread makes, every value the plain int 1: one value per
\* named parameter, and where the function takes them one extra positional
\* value, or the keyword a.
ConcInputs(fn) ==
    {sh \in {AllOnes(Len(fn.args), {}), AllOnes(Len(fn.args) + 1, {}),
             AllOnes(Len(fn.args), {"a"})} : BindOk(fn, sh.args, sh.kwargs)}

\* Objects of different threads are alive together: the identity of an
\* object thread t made is its own.
Tag(t, id) == <<id[1], id[2], t>>

LocalObj(t, v) == [v EXCEPT !.oid = Tag(t, v.oid)]

\* The local args and kwargs of thread t after lines 81-85.
ThreadArgs(t, in) ==
    LET pre == Preprocess(pyfn, in.args, in.kwargs)
    IN  [args |-> [i \in DOMAIN pre.args |-> LocalObj(t, pre.args[i])],
         kwargs |-> [j \in DOMAIN pre.kwargs |->
                       [name |-> pre.kwargs[j].name,
                        val |-> LocalObj(t, pre.kwargs[j].val)]]]

\* The local callargs of thread t (line 100).
ThreadCallargs(t, in) ==
    orderedcallargs(pyfn, ThreadArgs(t, in).args, ThreadArgs(t, in).kwargs)

\* The local Context of thread t after c.call (lines 93-94), as the tr-th
\* execution: the results and the svars it reports are objects of thread t.
ThreadContext(t, in, tr) ==
    LET c == ContextCall(pyfn, ThreadArgs(t, in).args,
                         ThreadArgs(t, in).kwargs, tr)
        own(id) == IF Len(id) = 2 THEN Tag(t, id) ELSE id
    IN  [raised |-> c.raised,
         results |-> [istuple |-> c.results.istuple,
                      items |-> [i \in DOMAIN c.results.items |->
                                    LocalObj(t, c.results.items[i])]],
         svars |-> [id \in {own(i) : i \in DOMAIN c.svars} |-> Node(tr, id)]]

\* What the trace of thread t's call leaves in the dictionaries when no
\* other thread touches them.
Solo(t) ==
    Executed(pyfn, ClearVars(<<>>), <<>>, <<>>,
             ThreadContext(t, th[t].in, th[t].tr),
             ThreadCallargs(t, th[t].in))

\* Thread t leaves call: it releases the lock if it holds it.
Release(t) == IF lock = t THEN 0 ELSE lock

\* Thread t enters call(*args, **kwargs) (taking the lock first, where the
\* callers use one) and pre-processes its arguments (lines 206-208, 81-85).
Enter(t) ==
    /\ th[t].pc = "idle"
    /\ useLock => lock = 0
    /\ \E in \in ConcInputs(pyfn) :
           th' = [th EXCEPT ![t] = [@ EXCEPT !.pc = "clear", !.in = in]]
    /\ lock' = IF useLock THEN t ELSE lock
    /\ UNCHANGED <<pyfn, symVars, gradVars, useLock>>

\* Lines 88-90: thread t clears the three dictionaries.
ClearStep(t) ==
    /\ th[t].pc = "clear"
    /\ s_vars' = ClearVars(s_vars)
    /\ s_args' = Clear(s_args)
    /\ s_results' = Clear(s_results)
    /\ th' = [th EXCEPT ![t] = [@ EXCEPT !.pc = "exec"]]
    /\ UNCHANGED <<pyfn, cache, traceCount, artCount, last, gradVars,
                   useLock, lock>>

\* Lines 93-97: thread t executes the function in its own Context and
\* updates s_vars from what it reports.
ExecStep(t) ==
    /\ th[t].pc = "exec"
    /\ traceCount' = traceCount + 1
    /\ s_vars' = UpdateVars(s_vars,
                     ThreadContext(t, th[t].in, traceCount + 1).svars)
    /\ th' = [th EXCEPT ![t] = [@ EXCEPT !.pc = "collect",
                                         !.tr = traceCount + 1]]
    /\ UNCHANGED <<pyfn, s_args, s_results, cache, artCount, last, gradVars,
                   useLock, lock>>

\* Lines 99-150: thread t binds its arguments and results by looking its
\* objects up in s_vars as it is now; the KeyError ends the call.
CollectStep(t) ==
    /\ th[t].pc = "collect"
    /\ \E r \in {Collected(s_vars,
                           ArgSteps(pyfn, ThreadCallargs(t, th[t].in)),
                           ThreadContext(t, th[t].in, th[t].tr).results.items,
                           s_args, s_results)} :
           /\ s_args' = r.s_args
           /\ s_results' = r.s_results
           /\ th' = [th EXCEPT ![t] = [@ EXCEPT !.pc = IF r.outcome = "ok"
                                                      THEN "compile"
                                                      ELSE "raised"]]
           /\ lock' = IF r.outcome = "ok" THEN lock ELSE Release(t)
    /\ UNCHANGED <<pyfn, s_vars, cache, traceCount, artCount, last, gradVars,
                   useLock>>

\* Lines 162-199: thread t compiles from s_args and s_results as they are
\* now and stores the artifact under the key of its call.
CompileStep(t) ==
    /\ th[t].pc = "compile"
    /\ \E art \in {Artifact(artCount + 1, pyfn, s_args, s_results)} :
           /\ cache' = Store(cache,
                             CacheKey(pyfn, th[t].in.args, th[t].in.kwargs),
                             art)
           /\ th' = [th EXCEPT ![t] = [@ EXCEPT !.pc = "invoke", !.art = art]]
    /\ artCount' = artCount + 1
    /\ UNCHANGED <<pyfn, s_vars, s_args, s_results, traceCount, last,
                   gradVars, useLock, lock>>

\* Lines 211-218: thread t looks its key up and invokes what it finds; the
\* call returns.
InvokeStep(t) ==
    /\ th[t].pc = "invoke"
    /\ CacheKey(pyfn, th[t].in.args, th[t].in.kwargs) \in DOMAIN cache
    /\ th' = [th EXCEPT ![t] = [@ EXCEPT !.pc = "done"]]
    /\ lock' = Release(t)
    /\ UNCHANGED <<pyfn, symVars, gradVars, useLock>>

Next == TraceCall \/ FunctionCall

\* One Symbolic/Function instance, used through trace and call.
Spec == Init /\ [][Next]_vars

GradNext == GradientCall

\* One Gradient instance, used through __call__.
GradSpec == Init /\ [][GradNext]_vars

\* One Function instance shared by the threads, with and without a lock.
ConcInit ==
    /\ pyfn \in ConcPyFns
    /\ Constructed
    /\ useLock \in BOOLEAN

ConcNext ==
    \E t \in Threads :
        \/ Enter(t)
        \/ ClearStep(t)
        \/ ExecStep(t)
        \/ CollectStep(t)
        \/ CompileStep(t)
        \/ InvokeStep(t)

\* Each thread makes one call on the shared instance.
ConcSpec == ConcInit /\ [][ConcNext]_vars

DefaultsNext == FunctionCall

\* One Function instance around a function with defaults, used through call.
DefaultsSpec == DefaultsInit /\ [][DefaultsNext]_vars

\* ------------------------------------------------------------- properties
\* The graph nodes bound in s_args, in order, variadic elements included.
ArgNodes(sa) == Concat([i \in DOMAIN sa |-> sa[i].nodes])

\* The graph nodes held by the three dictionaries.
HeldNodes ==
    Range(s_vars) \cup Range(ArgNodes(s_args))
        \cup {s_results[i].node : i \in DOMAIN s_results}

\* C1: a call whose variadic count already has a cache entry does not run
\* trace or _compile_function, and the artifact it invokes is the one that
\* was stored under that key before the call.
C1_HitReusesCachedArtifact ==
    [][(last'.op = "call" /\ last'.hit)
          => /\ ~last'.executed
             /\ traceCount' = traceCount
             /\ artCount' = artCount
             /\ last'.invoked = cache[last'.key].id]_vars

\* C2 (as stated): when invoking the gradient artifact raises, _grad_fn is
\* none when the error propagates, and the very next call executes the
\* function again and builds a new artifact, not the one that failed.
C2_NextCallAlwaysRebuilds ==
    [][/\ (glast'.outcome = "InvokeError" => grad_fn' = NoGradFn)
       /\ (glast.outcome = "InvokeError"
             => /\ glast'.executed
                /\ glast'.built # 0
                /\ glast'.built # glast.invoked)]_vars

\* C2 (amended): when invoking the gradient artifact raises, whether it was
\* built in this call or cached before, _grad_fn is none when the error
\* propagates; the very next call executes the function again, and unless
\* it raises before invoking anything it builds and invokes a new artifact,
\* not the one that failed.
C2_FailureInvalidatesAndRetraces ==
    [][/\ (glast'.outcome = "InvokeError" => grad_fn' = NoGradFn)
       /\ (glast.outcome = "InvokeError"
             => /\ grad_fn = NoGradFn
                /\ glast'.executed
                /\ gradTraces' = gradTraces + 1
                /\ (glast'.outcome \in {"ok", "InvokeError"}
                      => /\ glast'.built # 0
                         /\ glast'.built # glast.invoked
                         /\ glast'.invoked = glast'.built))]_vars

\* A second artifact was built and ran: the first had failed and was dropped.
C2_Witness == glast.executed /\ glast.built >= 2 /\ glast.outcome = "ok"

\* C3: after a call has returned, _grad_fn is the artifact it invoked; a
\* call that starts with an artifact cached invokes that artifact, executes
\* nothing and, if it returns, leaves it cached, whatever the arguments; the
\* function is executed only by calls that start uncompiled, once per call.
C3_ReadyReusesArtifact ==
    [][/\ (glast'.outcome = "ok"
             => grad_fn' # NoGradFn /\ grad_fn'.id = glast'.invoked)
       /\ (grad_fn # NoGradFn
             => /\ ~glast'.executed
                /\ gradTraces' = gradTraces
                /\ gradBuilds' = gradBuilds
                /\ glast'.invoked = grad_fn.id
                /\ (glast'.outcome = "ok" => grad_fn' = grad_fn))
       /\ gradTraces' \in {gradTraces, gradTraces + 1}
       /\ (gradTraces' # gradTraces => grad_fn = NoGradFn)]_vars

\* A ready call returned although it was given another number of values
\* than the artifact was built from.
C3_Witness ==
    /\ glast.ready /\ glast.outcome = "ok" /\ ~glast.executed
    /\ Len(glast.args) + Len(glast.kwargs) # Len(grad_fn.wrt)

\* C4: a trace or call given a list, tuple or dict in any position raises
\* the TypeError of the pre-processing: the function is not executed, no
\* artifact is compiled or invoked, and the cache is as before.
C4_ContainerRejected ==
    [][(last'.op \in {"trace", "call"} /\ last'.container)
          => /\ last'.outcome = "TypeError"
             /\ ~last'.executed
             /\ last'.built = 0 /\ last'.invoked = 0
             /\ traceCount' = traceCount
             /\ artCount' = artCount
             /\ cache' = cache]_vars

\* A call on a cached key was rejected for a container.
C4_Witness ==
    /\ last.op = "call" /\ last.container /\ last.hit
    /\ last.outcome = "TypeError"

\* C5: the artifact a call compiles declares a single output exactly when
\* the function returns a non-tuple, and otherwise one output per element of
\* the returned tuple, in order.
C5_OutputShapeMatchesReturn ==
    (last.op = "call" /\ last.built # 0)
        => LET out == cache[last.key].outputs
               r == Returned(pyfn)
           IN  /\ out.single = ~r.istuple
               /\ (r.istuple
                     => [i \in DOMAIN out.nodes |-> out.nodes[i].of]
                          = [i \in DOMAIN r.items |-> Id(r.items[i])])

\* C6: no step removes a cache key; a call leaves the artifact under every
\* key but its own unchanged and, when it returns, has its key in the
\* cache; artifacts under different keys are different artifacts.
C6_CacheGrows ==
    [][/\ DOMAIN cache \subseteq DOMAIN cache'
       /\ \A k \in DOMAIN cache :
             (last'.op # "call" \/ k # last'.key) => cache'[k] = cache[k]
       /\ (last'.op = "call" /\ last'.outcome = "ok"
             => last'.key \in DOMAIN cache')
       /\ \A j, k \in DOMAIN cache' :
             j # k => cache'[j].id # cache'[k].id]_vars

\* Calls with two different variadic counts have returned.
C6_Witness ==
    /\ Cardinality(DOMAIN cache) = 2
    /\ last.op = "call" /\ last.outcome = "ok"

\* C7: once trace has executed the function, no identity it saw is that of
\* an interned small int; when the arguments were bound, each of the `ints`
\* small ints of the call is bound to the node of its own boxed object.
C7_SmallIntsBoxedApart ==
    (last.op \in {"trace", "call"} /\ last.executed)
        => /\ \A id \in DOMAIN s_vars : id[1] # "interned"
           /\ (last.outcome \notin {"KeyError", "FnError"}
                 => LET nodes == ArgNodes(s_args)
                        boxed == {i \in DOMAIN nodes :
                                    nodes[i].of[1] \in {"boxed", "boxedkw"}}
                    IN  /\ Cardinality(boxed) = last.ints
                        /\ Cardinality({nodes[i] : i \in boxed}) = last.ints)

\* A trace returned for a call with two small ints.
C7_Witness == last.op = "trace" /\ last.outcome = "ok" /\ last.ints >= 2

\* C8: an uncompiled call in which a supplied value or the result has no
\* node raises the KeyError: nothing is built or invoked, _grad_fn is none.
C8_UntracedIsFatal ==
    (~glast.ready /\ glast.missing)
        => /\ glast.outcome = "KeyError"
           /\ glast.built = 0 /\ glast.invoked = 0
           /\ grad_fn = NoGradFn

\* An uncompiled call with keyword values met an untraceable value.
C8_Witness ==
    /\ ~glast.ready /\ glast.missing /\ glast.outcome = "KeyError"
    /\ Len(glast.kwargs) > 0

\* C9: an artifact built from p positional and k keyword values is
\* differentiated with respect to p + k nodes, those of the positional
\* values first and of the keyword values after, has one gradient per node
\* in that order, and is unwrapped exactly when p + k = 1.
C9_GradientOrder ==
    (glast.built # 0 /\ glast.outcome = "ok")
        => LET ids == glast.args \o glast.kwargs
           IN  /\ grad_fn.id = glast.built
               /\ Len(grad_fn.wrt) = Len(glast.args) + Len(glast.kwargs)
               /\ Len(grad_fn.grads) = Len(grad_fn.wrt)
               /\ \A i \in DOMAIN ids :
                     /\ grad_fn.wrt[i].of = ids[i]
                     /\ grad_fn.grads[i].wrt = grad_fn.wrt[i]
               /\ grad_fn.single = (Len(ids) = 1)

\* An artifact was built from a positional and a keyword value that are
\* different objects.
C9_Witness ==
    /\ glast.built # 0 /\ glast.outcome = "ok"
    /\ Len(glast.args) >= 1 /\ Len(glast.kwargs) >= 1
    /\ glast.args[1] # glast.kwargs[1]

\* C10: after any run of trace, returned or raised, the three dictionaries
\* hold no entry of an earlier trace: every node they hold was made by the
\* execution of this run, and none if this run executed nothing.
C10_DictsHoldOnlyThisTrace ==
    last.op \in {"trace", "call"}
        => \A n \in HeldNodes : last.executed /\ n.tr = traceCount

\* C11: the KeyError of an untraceable bound value names its parameter (the
\* one not yet in s_args), and for an element of the variadic argument it
\* names the variadic parameter and gives the element's 1-based index: one
\* more than the number of elements bound before it.
C11_ErrorNamesItemFromOne ==
    (last.op \in {"trace", "call"} /\ last.outcome = "KeyError"
        /\ last.err.kind # "result")
        => IF last.err.kind = "varitem"
           THEN /\ last.err.name = pyfn.varargs
                /\ last.err.index = Len(Get(s_args, pyfn.varargs).nodes) + 1
           ELSE /\ last.err.name \in Range(pyfn.args) \cup {"a", "b"}
                /\ ~Has(s_args, last.err.name)

\* The parameters the signature declares: the named ones, the variadic one
\* and the keyword bag.
DeclaredNames(fn) ==
    Range(fn.args) \cup ({fn.varargs, fn.keywords} \ {NoName})

\* Whether the trace of the last operation returned.
TraceReturned ==
    \/ last.op = "trace" /\ last.outcome = "ok"
    \/ last.op = "call" /\ last.outcome \in {"ok", "CompileError", "InvokeError"}

\* C12: after trace returns, s_args has exactly one entry per declared
\* parameter and s_results exactly one entry per value the function returned
\* (a single value counting as a one-element tuple).
C12_OneEntryPerParameterAndResult ==
    TraceReturned
        => /\ {s_args[i].name : i \in DOMAIN s_args} = DeclaredNames(pyfn)
           /\ Len(s_args) = Cardinality(DeclaredNames(pyfn))
           /\ Len(s_results) = Len(Returned(pyfn).items)

C14_DefaultsAligned ==
    (last.op = "call" /\ last.built # 0)
        => LET inputs == cache[last.key].inputs
               np == Len(pyfn.args)
               nd == Len(pyfn.defaults)
               own(i) == IF i > np - nd /\ (pyfn.varargs = NoName \/ i < np)
                         THEN pyfn.defaults[i - (np - nd)] ELSE NoneValue
           IN  /\ \A i \in 1..np :
                     Cardinality({k \in DOMAIN inputs :
                                     /\ inputs[k].name = pyfn.args[i]
                                     /\ inputs[k].index = -1
                                     /\ inputs[k].default = own(i)}) = 1
               /\ \A k \in DOMAIN inputs :
                     (inputs[k].index >= 0 \/ inputs[k].name \notin Range(pyfn.args))
                         => inputs[k].default = NoneValue

\* An artifact was compiled for a function with two defaults and a variadic
\* parameter, from a call with an extra positional value.
C14_Witness ==
    /\ last.op = "call" /\ last.built # 0 /\ last.key = 1
    /\ Len(pyfn.defaults) = 2 /\ pyfn.varargs # NoName

\* C15: in every call that invokes an artifact, the i-th positional value
\* (named parameters in order, then variadic elements in order) meets, as
\* the artifact's i-th declared input, the input made for that same logical
\* argument, and every keyword value has an input of its name that no
\* positional value has taken.
C15_PositionalValuesLineUp ==
    (last.op = "call" /\ last.invoked # 0)
        => LET inputs == cache[last.key].inputs
           IN  /\ Len(last.pos) <= Len(inputs)
               /\ \A i \in DOMAIN last.pos :
                     i \in DOMAIN inputs
                         => /\ inputs[i].name = last.pos[i].name
                            /\ inputs[i].index = last.pos[i].index
               /\ \A n \in last.kw :
                     \E k \in DOMAIN inputs :
                         k > Len(last.pos) /\ inputs[k].name = n

\* C16: after every trace that returns, s_vars is exactly the identity map
\* the engine reported for that execution (its identities, each with the
\* node this execution made), and every node in s_args and s_results is a
\* value of s_vars.
C16_VarsAreThisExecutionsMap ==
    TraceReturned
        => /\ DOMAIN s_vars = last.reported
           /\ \A id \in DOMAIN s_vars : s_vars[id] = Node(traceCount, id)
           /\ Range(ArgNodes(s_args)) \subseteq Range(s_vars)
           /\ \A i \in DOMAIN s_results : s_results[i].node \in Range(s_vars)

\* A second trace on the same instance returned.
C16_Witness == TraceReturned /\ last.op = "trace" /\ traceCount = 2

\* C17: a call that raises for a container argument, for an untraceable
\* argument or result, or because compilation fails leaves the cache with
\* the same keys and the same artifacts as before the call.
C17_FailedCallKeepsCache ==
    [][(last'.op = "call"
          /\ last'.outcome \in {"TypeError", "KeyError", "CompileError"})
          => /\ cache' = cache
             /\ artCount' = artCount
             /\ last'.built = 0 /\ last'.invoked = 0]_vars

\* Compilation failed in a call whose key the cache already held.
C17_Witness ==
    last.op = "call" /\ last.outcome = "CompileError" /\ last.hit

ForeignBindings(t) ==
    /\ th[t].art # NoArtifact
    /\ th[t].art # Artifact(th[t].art.id, pyfn, Solo(t).s_args,
                            Solo(t).s_results)

\* C19: when the calls on the instance are serialized by a per-instance
\* lock, every artifact is compiled from the bindings of its own call's
\* trace only, and no call fails to find its own objects in s_vars.
C19_LockedCallsCompileOwnBindings ==
    useLock => \A t \in Threads :
                   ~ForeignBindings(t) /\ th[t].pc # "raised"

\* C19, without a lock: a call has compiled its artifact from s_args and
\* s_results that another call's trace cleared or populated.
C19_Witness ==
    ~useLock /\ \E t \in Threads : ForeignBindings(t)

====
